---- MODULE Spec2Model ----
(***************************************************************************)
(* InvoiceGuard: invoice extraction -> matching/verification -> currency   *)
(* conversion.  Model of src/src/validator.py, src/src/matcher.py,         *)
(* src/src/fx_rate_service.py, src/src/extract_invoice.py and src/main.py. *)
(*                                                                         *)
(* Text is modelled as a sequence of one-character strings, so that        *)
(* strip/lower/upper/replace/substring are computed and not assumed.       *)
(* A table cell is a tagged record [t, v, s]: Python None, float NaN, a    *)
(* number, or a string.  Amounts and rates are integers (1.0 is 1).        *)
(***************************************************************************)
EXTENDS Integers, Sequences, FiniteSets, TLC

\* ------------------------------------------------------------------ bounds
MaxItems == 2      \* line items in one invoice table
MaxFiles == 2      \* entries of the invoices folder
MaxRuns == 2       \* pipeline runs made on one data folder
MaxRerunRows == 1  \* line items of a run that another run follows
MaxCalls == 2      \* get_rate calls made on one cache by a direct caller

\* ------------------------------------------------------------------- text
LowerLetters == <<"a", "b", "d", "e", "f", "g", "j", "n", "p", "r", "s", "u", "x", "z">>
UpperLetters == <<"A", "B", "D", "E", "F", "G", "J", "N", "P", "R", "S", "U", "X", "Z">>
Whitespace == {" ", "\t"}

LowerChar(c) ==
    IF \E i \in 1..Len(UpperLetters) : UpperLetters[i] = c
    THEN LowerLetters[CHOOSE i \in 1..Len(UpperLetters) : UpperLetters[i] = c]
    ELSE c

UpperChar(c) ==
    IF \E i \in 1..Len(LowerLetters) : LowerLetters[i] = c
    THEN UpperLetters[CHOOSE i \in 1..Len(LowerLetters) : LowerLetters[i] = c]
    ELSE c

\* str.lower()
Lower(s) == [i \in 1..Len(s) |-> LowerChar(s[i])]

\* str.upper()
Upper(s) == [i \in 1..Len(s) |-> UpperChar(s[i])]

\* str.strip(): drops leading and trailing whitespace only
Strip(s) ==
    LET keep == {i \in 1..Len(s) : s[i] \notin Whitespace}
    IN IF keep = {} THEN <<>>
       ELSE LET lo == CHOOSE i \in keep : \A j \in keep : i <= j
                hi == CHOOSE i \in keep : \A j \in keep : i >= j
            IN SubSeq(s, lo, hi)

\* str.replace(" ", "_")
ReplaceSpaces(s) == [i \in 1..Len(s) |-> IF s[i] = " " THEN "_" ELSE s[i]]

\* `sub in s` for strings
Contains(s, sub) ==
    \E i \in 1..(Len(s) - Len(sub) + 1) : SubSeq(s, i, i + Len(sub) - 1) = sub

\* str.endswith(suffix)
EndsWith(s, suffix) ==
    /\ Len(s) >= Len(suffix)
    /\ SubSeq(s, Len(s) - Len(suffix) + 1, Len(s)) = suffix

\* ------------------------------------------------------------------ cells
None == [t |-> "none", v |-> 0, s |-> <<>>]
NaN == [t |-> "nan", v |-> 0, s |-> <<>>]
Num(n) == [t |-> "num", v |-> n, s |-> <<>>]
Str(s) == [t |-> "str", v |-> 0, s |-> s]

\* pandas' notion of a missing value (None or NaN)
Known(c) == c.t \notin {"none", "nan"}

\* Python truthiness of a cell: None, "", 0 are falsy; NaN is truthy
Truthy(c) ==
    CASE c.t = "none" -> FALSE
      [] c.t = "nan" -> TRUE
      [] c.t = "num" -> c.v # 0
      [] c.t = "str" -> c.s # <<>>

Digits == <<"0", "1", "2", "3", "4", "5", "6", "7", "8", "9">>
IsDigit(c) == \E i \in 1..10 : Digits[i] = c
DigitVal(c) == (CHOOSE i \in 1..10 : Digits[i] = c) - 1

RECURSIVE DigitsVal(_)
DigitsVal(s) ==
    IF s = <<>> THEN 0
    ELSE 10 * DigitsVal(SubSeq(s, 1, Len(s) - 1)) + DigitVal(s[Len(s)])

\* float(x): [ok |-> FALSE] stands for TypeError / ValueError
ToFloat(c) ==
    CASE c.t = "none" -> [ok |-> FALSE, val |-> None]
      [] c.t = "nan" -> [ok |-> TRUE, val |-> NaN]
      [] c.t = "num" -> [ok |-> TRUE, val |-> c]
      [] c.t = "str" ->
           LET body == Strip(c.s)
           IN IF body # <<>> /\ \A i \in 1..Len(body) : IsDigit(body[i])
              THEN [ok |-> TRUE, val |-> Num(DigitsVal(body))]
              ELSE [ok |-> FALSE, val |-> None]

\* float arithmetic with NaN propagation
\* FSub with the operands exchanged
FSubReversed(a, b) == IF a.t = "nan" \/ b.t = "nan" THEN NaN ELSE Num(b.v - a.v)

FSub(a, b) == IF a.t = "nan" \/ b.t = "nan" THEN NaN ELSE Num(a.v - b.v)
FMul(a, r) == IF a.t = "nan" THEN NaN ELSE Num(a.v * r)
Abs(n) == IF n < 0 THEN -n ELSE n
\* abs(d) <= tol; every comparison with NaN is False
AbsLeq(d, tol) == d.t = "num" /\ Abs(d.v) <= tol

\* ------------------------------------------------------------ input domains
\* currency codes
USD == <<"U", "S", "D">>
usd == <<"u", "s", "d">>
EUR == <<"E", "U", "R">>
eur == <<"e", "u", "r">>
GBP == <<"G", "B", "P">>

\* item descriptions: "Ab", " a B ", whitespace only, and a non-string (NaN)
Descriptions ==
    { Str(<<"A", "b">>), Str(<<" ", "a", " ", "B", " ">>), Str(<<" ", "\t">>), NaN }

\* total_non_vat_value cells: missing, NaN, non-numeric text, numeric text, number
Amounts == { None, NaN, Str(<<"x">>), Str(<<"5">>), Num(3) }

\* currency cells: missing, NaN (absent key), empty, and codes in either case
Currencies == { None, NaN, Str(<<>>), Str(USD), Str(usd), Str(EUR), Str(eur) }

\* names of the entries of the invoices folder
InvoiceNames == { <<"j", ".", "p", "d", "f">>, <<"J", ".", "P", "N", "G">>, <<"n", ".", "x">> }

\* a folder: a missing one, or its entries in os.listdir order
NoFolder == [exists |-> FALSE, entries |-> <<>>]
Folder(names) == [exists |-> TRUE, entries |-> names]

\* supporting-document folders: "zz", "xAB", "A_b2", "ab_a_b"
DocZ == <<"z", "z">>
DocAB == <<"x", "A", "B">>
DocA_B == <<"A", "_", "b", "2">>
DocBoth == <<"a", "b", "_", "a", "_", "b">>
SupportFolders ==
    { NoFolder, Folder(<<>>), Folder(<<DocZ, DocAB, DocBoth>>), Folder(<<DocA_B, DocZ>>) }

\* what extract_value_from_support_doc returns: None or a float
AdapterValues == { None, Num(3), Num(5), Num(6) }

\* configured tolerance (config.json), non-negative
Tolerances == { 0, 2 }

\* ------------------------------------------------------------------ state
VARIABLES
    entry,                  \* the function the outside called
    pc,                     \* position of the pipeline / of the called stage
    invoices_folder,        \* the invoices folder
    supporting_docs_folder, \* the supporting-documents folder
    rates_file,             \* the local FX rates CSV
    tolerance,              \* matcher.tolerance
    base_currency,          \* fx_rate_service.base_currency
    file_idx,               \* process_invoices: next folder entry
    all_data,               \* process_invoices: rows collected so far
    df_invoice,             \* the invoice table handed to the stages
    row_idx,                \* next row of the running stage's loop
    verified_rows,          \* match_and_verify: records built so far
    adapter_calls,          \* documents handed to the Extraction Adapter, per row
    rates_dict,             \* local rate table of the running conversion
    api_cache,              \* the caller's remote cache dict
    converted,              \* apply_fx_rates: converted values so far
    remote_calls,           \* base currencies requested from the remote API, in order
    last_call,              \* the most recent get_rate call and its outcome
    data_files,             \* the three CSV side-files in data_folder
    result,                 \* value returned by the entry function
    report,                 \* calls of generate_report made by main
    history,                \* outcomes of the earlier invocations on the same input
    run,                    \* number of the pipeline run in progress
    last_extract            \* process_invoices: the folder entry just handled

vars == << entry, pc, invoices_folder, supporting_docs_folder, rates_file, tolerance,
           base_currency, file_idx, all_data, df_invoice, row_idx, verified_rows,
           adapter_calls, rates_dict, api_cache, converted, remote_calls, last_call, data_files, result, report,
           history, run, last_extract >>

\* ---------------------------------------------------------------- matcher
\* _normalize_for_match
NormalizeForMatch(text) ==
    IF text.t # "str" THEN <<>>
    ELSE ReplaceSpaces(Lower(Strip(text.s)))

\* FirstMatch going through the whole listing and keeping the last hit
LastMatch(entries, target_key) ==
    LET hits == {i \in 1..Len(entries) : Contains(Lower(entries[i]), target_key)}
    IN IF hits = {} THEN 0 ELSE CHOOSE i \in hits : \A j \in hits : i >= j

\* the for/break loop over os.listdir: index of the first entry whose lower-cased
\* name contains the key, 0 when the loop ends without a hit
FirstMatch(entries, target_key) ==
    LET hits == {i \in 1..Len(entries) : Contains(Lower(entries[i]), target_key)}
    IN IF hits = {} THEN 0 ELSE CHOOSE i \in hits : \A j \in hits : i <= j

\* RowDefaults with the verdict starting out True
RowDefaultsNoMatchFlag ==
    [supporting_found |-> FALSE, matching_value |-> TRUE, matched_doc |-> <<>>,
     extracted_value |-> None, diff |-> None]

\* the per-row defaults set before the lookup
RowDefaults ==
    [supporting_found |-> FALSE, matching_value |-> FALSE, matched_doc |-> <<>>,
     extracted_value |-> None, diff |-> None]

\* try: float(non_vat_value) except (TypeError, ValueError): None
CoerceInvoiceValue(cell) ==
    LET f == ToFloat(cell) IN IF f.ok THEN f.val ELSE None

\* DiffOf taking a missing extracted value for zero
DiffOfNoneAsZero(extracted_value, non_vat_value) ==
    IF non_vat_value # None
    THEN FSub(IF extracted_value = None THEN Num(0) ELSE extracted_value, non_vat_value)
    ELSE None

\* diff, when both values are not None
DiffOf(extracted_value, non_vat_value) ==
    IF extracted_value # None /\ non_vat_value # None
    THEN FSub(extracted_value, non_vat_value)
    ELSE None

\* WithinTolerance with the boundary excluded
WithinToleranceStrict(diff, tol) == diff # None /\ diff.t = "num" /\ Abs(diff.v) < tol

\* abs(diff) <= tolerance, evaluated only when diff was computed
WithinTolerance(diff, tol) == diff # None /\ AbsLeq(diff, tol)

\* ScansFolder without the test of the key
ScansFolderAnyKey(folder, target_key) == folder.exists

\* whether the row's lookup runs at all
ScansFolder(folder, target_key) == folder.exists /\ target_key # <<>>

\* one iteration of the loop over df_invoice.iterrows(): the record appended
\* for `row`, given what the Extraction Adapter returns if it is called
VerifyRecord(row, folder, tol, adapter_value) ==
    LET item_desc == row.item_description
        target_key == NormalizeForMatch(item_desc)
        non_vat_value == CoerceInvoiceValue(row.total_non_vat_value)
        hit == IF ScansFolder(folder, target_key)
               THEN FirstMatch(folder.entries, target_key) ELSE 0
        d == RowDefaults
        diff == IF hit > 0 THEN DiffOf(adapter_value, non_vat_value) ELSE d.diff
    IN [ item_description |-> item_desc,
         invoice_non_vat_value |-> non_vat_value,
         supporting_attached |-> IF hit > 0 THEN TRUE ELSE d.supporting_found,
         supporting_file |-> IF hit > 0 THEN folder.entries[hit] ELSE d.matched_doc,
         extracted_non_vat_value |-> IF hit > 0 THEN adapter_value ELSE d.extracted_value,
         difference |-> diff,
         non_vat_match |-> IF hit > 0 /\ diff # None
                           THEN (WithinTolerance(diff, tol) \/ d.matching_value)
                           ELSE d.matching_value,
         invoice_file |-> row.invoice_file ]

\* number of Extraction Adapter calls the iteration makes
AdapterCallsFor(row, folder) ==
    LET target_key == NormalizeForMatch(row.item_description)
    IN IF ScansFolder(folder, target_key) /\ FirstMatch(folder.entries, target_key) > 0
       THEN 1 ELSE 0

\* AppendRow putting the record in front
PrependRow(rows, rec) == <<rec>> \o rows

\* verified_rows.append(...)
AppendRow(rows, rec) == Append(rows, rec)

\* a CSV side-file: absent, or the table last written to it
NoFile == [present |-> FALSE, rows |-> <<>>]
Written(rows) == [present |-> TRUE, rows |-> rows]

\* ------------------------------------------------------- fx_rate_service
\* a Python dict is a function; {} is the function with the empty domain
EmptyDict == [k \in {} |-> 0]
Put(d, k, val) == (k :> val) @@ d

\* the rates CSV: missing, lacking a required column, or rows
\* (from_currency, to_currency, rate) with positive rates
NoRatesFile == [kind |-> "missing", rows |-> <<>>]
BadRatesFile == [kind |-> "bad_columns", rows |-> <<>>]
RatesCsv(rows) == [kind |-> "ok", rows |-> rows]
RateRow(f, t, r) == [from_currency |-> f, to_currency |-> t, rate |-> r]
RatesFiles ==
    { NoRatesFile, BadRatesFile,
      RatesCsv(<<RateRow(eur, USD, 2)>>),
      RatesCsv(<<RateRow(EUR, usd, 3), RateRow(GBP, EUR, 2), RateRow(eur, USD, 2)>>) }

\* the dict comprehension of load_rates: keys upper-cased, a later row wins
RECURSIVE RatesOfRows(_)
RatesOfRows(rows) ==
    IF rows = <<>> THEN EmptyDict
    ELSE LET r == rows[Len(rows)]
         IN Put(RatesOfRows(SubSeq(rows, 1, Len(rows) - 1)),
                <<Upper(r.from_currency), Upper(r.to_currency)>>, r.rate)

\* load_rates
LoadRates(file) == IF file.kind = "ok" THEN RatesOfRows(file.rows) ELSE EmptyDict

\* what requests.get / resp.json() can do: raise, answer non-2xx, or answer 2xx
\* with a body whose "rates" member is a map (absent member: the empty map)
NetworkError == [kind |-> "network_error", rates |-> EmptyDict]
HttpError == [kind |-> "http_error", rates |-> EmptyDict]
RemoteOk(m) == [kind |-> "ok", rates |-> m]
RemoteRateMaps ==
    { (USD :> Num(4)) @@ (EUR :> Num(3)), (USD :> Num(0)), (USD :> Str(<<"x">>)) }
RemoteOutcomes == { NetworkError, HttpError } \cup { RemoteOk(m) : m \in RemoteRateMaps }

\* `api_cache = api_cache or {}`: an empty dict is falsy, so the name is then
\* bound to a fresh dict and the caller's dict is not the one written to
SharesCallerCache(cache) == DOMAIN cache # {}

\* the request and the store into the dict, for a base that is not cached:
\* a raised exception skips the store
StoreRemote(cache, base, remote) ==
    CASE remote.kind = "network_error" -> cache
      [] remote.kind = "http_error" -> Put(cache, base, EmptyDict)
      [] remote.kind = "ok" -> Put(cache, base, remote.rates)

\* RateFromMap giving 0 when the map yields no rate
RateFromMapNoFallback(rates_map, to) ==
    IF to \in DOMAIN rates_map /\ rates_map[to] # None /\ ToFloat(rates_map[to]).ok
    THEN ToFloat(rates_map[to]).val.v
    ELSE 0

\* rates_map.get(to); float(rate) when it is not None; 1.0 otherwise and on error
RateFromMap(rates_map, to) ==
    IF to \in DOMAIN rates_map /\ rates_map[to] # None /\ ToFloat(rates_map[to]).ok
    THEN ToFloat(rates_map[to]).val.v
    ELSE 1

\* LocalLookup with the codes as passed in
LocalLookupAsGiven(rd, from, to) == <<from, to>> \in DOMAIN rd

\* `(from_currency, to_currency) in rates_dict`, after both were upper-cased
LocalLookup(rd, from, to) == <<Upper(from), Upper(to)>> \in DOMAIN rd

\* EitherEmpty requiring both codes to be empty
BothEmpty(from, to) == from = <<>> /\ to = <<>>

\* `not from_currency or not to_currency`
EitherEmpty(from, to) == from = <<>> \/ to = <<>>

\* get_rate(from_currency, to_currency, rates_dict, api_cache), `remote` being
\* what the network does if asked.  rate: the value returned; cache: the
\* caller's dict afterwards; called: a remote request was made; failed: it failed
GetRate(from_currency, to_currency, rd, cache, remote) ==
    IF EitherEmpty(from_currency, to_currency)
    THEN [rate |-> 1, cache |-> cache, called |-> FALSE, failed |-> FALSE,
          base |-> Upper(from_currency), local |-> FALSE]
    ELSE LET f == Upper(from_currency)
             t == Upper(to_currency)
             cached == f \in DOMAIN cache
             after == IF cached THEN cache ELSE StoreRemote(cache, f, remote)
             raised == ~cached /\ remote.kind = "network_error"
         IN IF LocalLookup(rd, from_currency, to_currency)
            THEN [rate |-> rd[<<f, t>>], cache |-> cache, called |-> FALSE,
                  failed |-> FALSE, base |-> f, local |-> TRUE]
            ELSE [rate |-> IF raised \/ f \notin DOMAIN after THEN 1
                           ELSE RateFromMap(after[f], t),
                  cache |-> IF SharesCallerCache(cache) THEN after ELSE cache,
                  called |-> ~cached,
                  failed |-> ~cached /\ remote.kind # "ok",
                  base |-> f, local |-> FALSE]

\* _safe_float
SafeFloat(val) == LET f == ToFloat(val) IN IF f.ok THEN f.val ELSE None

\* whether _convert_row reaches get_rate for the row
NeedsRate(row, base) ==
    /\ SafeFloat(row.total_non_vat_value) # None
    /\ Truthy(row.currency)
    /\ row.currency.t = "str"
    /\ Upper(row.currency.s) # Upper(base)

\* `currency.upper()` on a truthy value that is not a string: AttributeError
ConvertRaises(row) ==
    /\ SafeFloat(row.total_non_vat_value) # None
    /\ Truthy(row.currency)
    /\ row.currency.t # "str"

\* _convert_row: the converted value, `call` being the get_rate result used
ConvertValue(row, base, call) ==
    LET amount == SafeFloat(row.total_non_vat_value)
    IN IF amount = None THEN None
       ELSE IF ~Truthy(row.currency) THEN amount
       ELSE IF Upper(row.currency.s) = Upper(base) THEN amount
       ELSE FMul(amount, call.rate)

\* WithConverted writing the coerced amount back into the row
WithConvertedCoerced(row, val) ==
    [ item_description |-> row.item_description,
      total_non_vat_value |-> SafeFloat(row.total_non_vat_value),
      currency |-> row.currency,
      invoice_file |-> row.invoice_file,
      converted_non_vat_value |-> val ]

\* a row of the table returned by apply_fx_rates
WithConverted(row, val) ==
    [ item_description |-> row.item_description,
      total_non_vat_value |-> row.total_non_vat_value,
      currency |-> row.currency,
      invoice_file |-> row.invoice_file,
      converted_non_vat_value |-> val ]

NoCall ==
    [n |-> 0, from |-> <<>>, to |-> <<>>, rate |-> 1, called |-> FALSE,
     failed |-> FALSE, local |-> FALSE]

\* the record kept of a get_rate call
CallRecord(n, from, to, g) ==
    [n |-> n, from |-> from, to |-> to, rate |-> g.rate, called |-> g.called,
     failed |-> g.failed, local |-> g.local]

\* the log of remote requests
LogRemote(log, g, remote) ==
    IF g.called
    THEN Append(log, [base |-> g.base, ok |-> ~g.failed, answer |-> remote])
    ELSE log

\* ------------------------------------------------------- extract_invoice
InvoiceSuffixes ==
    { <<".", "p", "d", "f">>, <<".", "j", "p", "g">>, <<".", "j", "p", "e", "g">>,
      <<".", "p", "n", "g">> }

\* file_name.lower().endswith((".pdf", ".jpg", ".jpeg", ".png"))
IsInvoiceFile(name) == \E suf \in InvoiceSuffixes : EndsWith(Lower(name), suf)

\* a line item as the model's response gives it
RawItem(d, a, c) == [item_description |-> d, total_non_vat_value |-> a, currency |-> c]

\* the line items the pipeline runs are drawn from
PipelineItems ==
    { RawItem(Str(<<"A", "b">>), Num(3), Str(USD)),
      RawItem(Str(<<" ", "a", " ", "B", " ">>), Str(<<"5">>), Str(eur)),
      RawItem(NaN, None, None),
      RawItem(Str(<<"A", "b">>), Num(3), NaN) }

\* sequences over S of length lo..hi
SeqsOf(S, lo, hi) == UNION { [1..n -> S] : n \in lo..hi }

\* what happens to one invoice file: the file cannot be opened, the response is
\* empty, is not valid JSON, parses to something that is not a non-empty list,
\* or parses to a list of items (at most `room` of them)
ExtractionOutcomes(room) ==
    { [kind |-> k, items |-> <<>>] :
        k \in {"unreadable", "empty_response", "invalid_json", "not_list"} }
    \cup { [kind |-> "items", items |-> its] : its \in SeqsOf(PipelineItems, 1, room) }

\* the exception raised inside the try block of extract_line_items: opening
\* or converting the file fails, or the JSONDecodeError is re-raised by the
\* inner handler
RaisedInTry(outcome) ==
    CASE outcome.kind = "unreadable" -> "OSError"
      [] outcome.kind = "invalid_json" -> "JSONDecodeError"
      [] OTHER -> "none"

\* an outer handler that lets the re-raised JSONDecodeError through
OuterHandlerSkipsJson(exc) == exc \notin {"none", "JSONDecodeError"}

\* `except Exception` around the whole body: catches every exception raised
\* in it
OuterHandlerCatches(exc) == exc # "none"

\* whether an exception leaves extract_line_items
ExtractPropagates(outcome) ==
    /\ RaisedInTry(outcome) # "none"
    /\ ~OuterHandlerCatches(RaisedInTry(outcome))

\* extract_line_items: the rows of the DataFrame it returns
ExtractLineItems(outcome) ==
    IF RaisedInTry(outcome) # "none" THEN <<>>
    ELSE CASE outcome.kind = "empty_response" -> <<>>
           [] outcome.kind = "not_list" -> <<>>
           [] outcome.kind = "items" -> outcome.items

\* df["invoice_file"] = file_name
WithInvoiceFile(rows, name) ==
    [i \in 1..Len(rows) |->
        [ item_description |-> rows[i].item_description,
          total_non_vat_value |-> rows[i].total_non_vat_value,
          currency |-> rows[i].currency,
          invoice_file |-> Str(name) ]]

\* CombineRows putting a file's rows in front of the rows collected so far
CombineRowsInFront(all, df) == df \o all

\* all_data.append(df) for a non-empty df, as pd.concat lays the rows out
CombineRows(all, df) == all \o df

\* ------------------------------------------------------------- bookkeeping
NoFiles == [extracted |-> NoFile, verification |-> NoFile, converted |-> NoFile]
NoResult == [returned |-> FALSE, invoice |-> <<>>, verification |-> <<>>]
\* return pd.DataFrame(), pd.DataFrame()
EmptyPair == [returned |-> TRUE, invoice |-> <<>>, verification |-> <<>>]
Returned(inv, ver) == [returned |-> TRUE, invoice |-> inv, verification |-> ver]
\* no folder entry handled yet
NoExtract == [file |-> <<>>, kind |-> "none", rows |-> <<>>]

NoReport == [done |-> FALSE, calls |-> <<>>]

\* folders with distinct entry names, in any listing order
FoldersOver(names, max) ==
    { Folder(q) : q \in { r \in SeqsOf(names, 0, max) :
                            \A i, j \in 1..Len(r) : i # j => r[i] # r[j] } }

\* ---------------------------------------------------------------- actions
\* run_validation up to the call of process_invoices, and that call's own
\* folder check: a missing invoices folder returns the empty pair at once
RunStart ==
    /\ pc = "Idle"
    /\ IF ~invoices_folder.exists
       THEN /\ pc' = IF entry = "process_invoices" THEN "Returned" ELSE "Aborted"
            /\ result' = EmptyPair
            /\ UNCHANGED << file_idx, all_data >>
       ELSE /\ pc' = "Extracting"
            /\ file_idx' = 1
            /\ all_data' = <<>>
            /\ UNCHANGED result
    /\ UNCHANGED << history, run, last_extract, entry, invoices_folder, supporting_docs_folder, rates_file, tolerance,
                    base_currency, df_invoice, row_idx, verified_rows, adapter_calls,
                    rates_dict, api_cache, converted, remote_calls, last_call, data_files, report >>

\* process_invoices: one iteration of the loop over os.listdir(invoices_folder)
ExtractFile ==
    /\ pc = "Extracting"
    /\ file_idx <= Len(invoices_folder.entries)
    /\ LET file_name == invoices_folder.entries[file_idx]
       IN IF IsInvoiceFile(file_name)
          THEN \E outcome \in ExtractionOutcomes(MaxItems - Len(all_data)) :
                 LET df == ExtractLineItems(outcome)
                 IN /\ last_extract' = [file |-> file_name, kind |-> outcome.kind,
                                        rows |-> df]
                    /\ IF ExtractPropagates(outcome)
                       THEN /\ pc' = "Raised"
                            /\ UNCHANGED << file_idx, all_data >>
                       ELSE /\ all_data' = CombineRows(all_data,
                                                       WithInvoiceFile(df, file_name))
                            /\ file_idx' = file_idx + 1
                            /\ UNCHANGED pc
          ELSE /\ last_extract' = [file |-> file_name, kind |-> "skipped", rows |-> <<>>]
               /\ all_data' = all_data
               /\ file_idx' = file_idx + 1
               /\ UNCHANGED pc
    /\ UNCHANGED << history, run, entry, invoices_folder, supporting_docs_folder,
                    rates_file, tolerance, base_currency, df_invoice, row_idx,
                    verified_rows, adapter_calls, rates_dict, api_cache, converted,
                    remote_calls, last_call, data_files, result, report >>

\* process_invoices after the loop, and run_validation's check of its result:
\* rows are concatenated and saved, or the pipeline stops with the empty pair
ExtractDone ==
    /\ pc = "Extracting"
    /\ file_idx > Len(invoices_folder.entries)
    /\ data_files' = IF all_data # <<>>
                     THEN [data_files EXCEPT !.extracted = Written(all_data)]
                     ELSE data_files
    /\ IF entry = "process_invoices"
       THEN /\ pc' = "Returned"
            /\ result' = Returned(all_data, <<>>)
            /\ UNCHANGED << df_invoice, row_idx, verified_rows, adapter_calls >>
       ELSE IF all_data # <<>>
       THEN /\ df_invoice' = all_data
            /\ pc' = "Verifying"
            /\ row_idx' = 1
            /\ verified_rows' = <<>>
            /\ adapter_calls' = <<>>
            /\ UNCHANGED result
       ELSE /\ pc' = "Aborted"
            /\ result' = EmptyPair
            /\ UNCHANGED << df_invoice, row_idx, verified_rows, adapter_calls >>
    /\ UNCHANGED << history, run, last_extract, entry, invoices_folder, supporting_docs_folder, rates_file, tolerance,
                    base_currency, file_idx, all_data, rates_dict, api_cache, converted,
                    remote_calls, last_call, report >>

\* values the Extraction Adapter may return for a matched document
AdapterChoices == IF entry = "match_and_verify" THEN AdapterValues ELSE { None, Num(5) }

\* match_and_verify: one iteration of the loop over the rows
VerifyRow ==
    /\ pc = "Verifying"
    /\ row_idx <= Len(df_invoice)
    /\ LET row == df_invoice[row_idx]
           n == AdapterCallsFor(row, supporting_docs_folder)
       IN /\ \E adapter_value \in (IF n > 0 THEN AdapterChoices ELSE { None }) :
                verified_rows' =
                    AppendRow(verified_rows,
                              VerifyRecord(row, supporting_docs_folder, tolerance, adapter_value))
          /\ adapter_calls' = Append(adapter_calls, n)
    /\ row_idx' = row_idx + 1
    /\ UNCHANGED << history, run, last_extract, entry, pc, invoices_folder, supporting_docs_folder, rates_file,
                    tolerance, base_currency, file_idx, all_data, df_invoice, rates_dict,
                    api_cache, converted, remote_calls, last_call,
                    data_files, result, report >>

\* VerifyDone leaving the loop one row early
VerifyDoneEarly ==
    /\ pc = "Verifying"
    /\ row_idx >= Len(df_invoice)
    /\ data_files' = [data_files EXCEPT !.verification = Written(verified_rows)]
    /\ IF entry = "match_and_verify"
       THEN /\ pc' = "Returned"
            /\ result' = Returned(<<>>, verified_rows)
            /\ UNCHANGED row_idx
       ELSE /\ pc' = "Converting"
            /\ row_idx' = 0
            /\ UNCHANGED result
    /\ UNCHANGED << history, run, last_extract, entry, invoices_folder, supporting_docs_folder, rates_file, tolerance,
                    base_currency, file_idx, all_data, df_invoice, verified_rows,
                    adapter_calls, rates_dict, api_cache, converted, remote_calls,
                    last_call, report >>

\* match_and_verify after the loop: the table is saved and returned
VerifyDone ==
    /\ pc = "Verifying"
    /\ row_idx > Len(df_invoice)
    /\ data_files' = [data_files EXCEPT !.verification = Written(verified_rows)]
    /\ IF entry = "match_and_verify"
       THEN /\ pc' = "Returned"
            /\ result' = Returned(<<>>, verified_rows)
            /\ UNCHANGED row_idx
       ELSE /\ pc' = "Converting"
            /\ row_idx' = 0
            /\ UNCHANGED result
    /\ UNCHANGED << history, run, last_extract, entry, invoices_folder, supporting_docs_folder, rates_file, tolerance,
                    base_currency, file_idx, all_data, df_invoice, verified_rows,
                    adapter_calls, rates_dict, api_cache, converted, remote_calls,
                    last_call, report >>

\* FxStart that keeps the values converted so far
FxStartKeepsValues ==
    /\ pc = "Converting"
    /\ row_idx = 0
    /\ rates_dict' = LoadRates(rates_file)
    /\ api_cache' = EmptyDict
    /\ remote_calls' = <<>>
    /\ last_call' = NoCall
    /\ row_idx' = 1
    /\ UNCHANGED << history, run, last_extract, entry, pc, invoices_folder,
                    supporting_docs_folder, rates_file, tolerance, base_currency,
                    file_idx, all_data, df_invoice, verified_rows, adapter_calls,
                    converted, data_files, result, report >>

\* apply_fx_rates before the rows: the rate table is loaded, the cache created
FxStart ==
    /\ pc = "Converting"
    /\ row_idx = 0
    /\ rates_dict' = LoadRates(rates_file)
    /\ api_cache' = EmptyDict
    /\ converted' = <<>>
    /\ remote_calls' = <<>>
    /\ last_call' = NoCall
    /\ row_idx' = 1
    /\ UNCHANGED << history, run, last_extract, entry, pc, invoices_folder, supporting_docs_folder, rates_file,
                    tolerance, base_currency, file_idx, all_data, df_invoice,
                    verified_rows, adapter_calls, data_files, result, report >>

\* remote outcomes tried for the conversions of a table
RemoteChoices ==
    IF entry = "main" THEN { NetworkError, RemoteOk((USD :> Num(4)) @@ (EUR :> Num(3))) }
    ELSE { NetworkError, HttpError, RemoteOk((USD :> Num(4)) @@ (EUR :> Num(3))), RemoteOk((USD :> Num(0))) }

\* apply_fx_rates: _convert_row on one row; an exception leaves the pipeline
ConvertRow ==
    /\ pc = "Converting"
    /\ row_idx \in 1..Len(df_invoice)
    /\ LET row == df_invoice[row_idx]
       IN IF ConvertRaises(row)
          THEN /\ pc' = "Raised"
               /\ UNCHANGED << row_idx, converted, api_cache, remote_calls, last_call >>
          ELSE IF ~NeedsRate(row, base_currency)
          THEN /\ converted' = Append(converted, ConvertValue(row, base_currency, NoCall))
               /\ row_idx' = row_idx + 1
               /\ UNCHANGED << pc, api_cache, remote_calls, last_call >>
          ELSE \E remote \in (IF GetRate(row.currency.s, base_currency, rates_dict,
                                         api_cache, NetworkError).called
                              THEN RemoteChoices ELSE { NetworkError }) :
                 LET g == GetRate(row.currency.s, base_currency, rates_dict, api_cache, remote)
                 IN /\ converted' = Append(converted, ConvertValue(row, base_currency, g))
                    /\ api_cache' = g.cache
                    /\ remote_calls' = LogRemote(remote_calls, g, remote)
                    /\ last_call' = CallRecord(last_call.n + 1, row.currency.s,
                                               base_currency, g)
                    /\ row_idx' = row_idx + 1
                    /\ UNCHANGED pc
    /\ UNCHANGED << history, run, last_extract, entry, invoices_folder, supporting_docs_folder, rates_file, tolerance,
                    base_currency, file_idx, all_data, df_invoice, verified_rows,
                    adapter_calls, rates_dict, data_files, result, report >>

\* FxTable keeping only the rows whose converted value is not None
FxTableDropUnknown(rows, vals) ==
    LET all == [i \in 1..Len(rows) |-> WithConverted(rows[i], vals[i])]
    IN SelectSeq(all, LAMBDA r : r.converted_non_vat_value # None)

\* the table apply_fx_rates returns
FxTable(rows, vals) == [i \in 1..Len(rows) |-> WithConverted(rows[i], vals[i])]

\* apply_fx_rates after the rows: the table is saved and returned
FxDone ==
    /\ pc = "Converting"
    /\ row_idx > Len(df_invoice)
    /\ LET df_invoice_fx == FxTable(df_invoice, converted)
       IN /\ data_files' = [data_files EXCEPT !.converted = Written(df_invoice_fx)]
          /\ IF entry = "apply_fx_rates"
             THEN /\ pc' = "Returned"
                  /\ result' = Returned(df_invoice_fx, <<>>)
             ELSE /\ pc' = "Done"
                  /\ result' = Returned(df_invoice_fx, verified_rows)
    /\ UNCHANGED << history, run, last_extract, entry, invoices_folder, supporting_docs_folder, rates_file, tolerance,
                    base_currency, file_idx, all_data, df_invoice, row_idx, verified_rows,
                    adapter_calls, rates_dict, api_cache, converted, remote_calls,
                    last_call, report >>

\* the caller invokes apply_fx_rates once more on the same table, with the
\* same rates file; what the first invocation computed is kept for comparison
FxAgain ==
    /\ entry = "apply_fx_rates"
    /\ pc = "Returned"
    /\ history = <<>>
    /\ history' = << [converted |-> converted, remote_calls |-> remote_calls] >>
    /\ pc' = "Converting"
    /\ row_idx' = 0
    /\ result' = NoResult
    /\ UNCHANGED << run, last_extract, entry, invoices_folder, supporting_docs_folder,
                    rates_file, tolerance, base_currency, file_idx, all_data,
                    df_invoice, verified_rows, adapter_calls, rates_dict, api_cache,
                    converted, remote_calls, last_call, data_files, report >>

\* MainFinish calling generate_report whatever the invoice table holds
MainFinishAlwaysReports ==
    /\ entry = "main"
    /\ pc \in {"Done", "Aborted"}
    /\ ~report.done
    /\ report' = [done |-> TRUE,
                  calls |-> Append(report.calls,
                                   [invoice |-> result.invoice,
                                    verification |-> result.verification])]
    /\ UNCHANGED << history, run, last_extract, entry, pc, invoices_folder,
                    supporting_docs_folder, rates_file, tolerance, base_currency,
                    file_idx, all_data, df_invoice, row_idx, verified_rows,
                    adapter_calls, rates_dict, api_cache, converted, remote_calls,
                    last_call, data_files, result >>

\* main after run_validation returned: the report is written unless the
\* invoice table is empty
MainFinish ==
    /\ entry = "main"
    /\ pc \in {"Done", "Aborted"}
    /\ ~report.done
    /\ report' = [done |-> TRUE,
                  calls |-> IF result.invoice = <<>> THEN report.calls
                            ELSE Append(report.calls,
                                        [invoice |-> result.invoice,
                                         verification |-> result.verification])]
    /\ UNCHANGED << history, run, last_extract, entry, pc, invoices_folder, supporting_docs_folder, rates_file,
                    tolerance, base_currency, file_idx, all_data, df_invoice, row_idx,
                    verified_rows, adapter_calls, rates_dict, api_cache, converted,
                    remote_calls, last_call, data_files, result >>

InvoiceFile == <<"j", ".", "p", "d", "f">>

\* NewRun starting from an emptied data folder
NewRunCleansFolder ==
    /\ entry = "main"
    /\ \/ pc \in {"Done", "Aborted"} /\ report.done
       \/ pc = "Raised"
    /\ run < MaxRuns
    /\ Len(all_data) <= MaxRerunRows
    /\ run' = run + 1
    /\ \E inv \in {NoFolder, Folder(<<InvoiceFile>>)} : invoices_folder' = inv
    /\ pc' = "Idle"
    /\ file_idx' = 1
    /\ all_data' = <<>>
    /\ df_invoice' = <<>>
    /\ row_idx' = 1
    /\ verified_rows' = <<>>
    /\ adapter_calls' = <<>>
    /\ rates_dict' = EmptyDict
    /\ api_cache' = EmptyDict
    /\ converted' = <<>>
    /\ remote_calls' = <<>>
    /\ last_call' = NoCall
    /\ result' = NoResult
    /\ report' = NoReport
    /\ last_extract' = NoExtract
    /\ data_files' = NoFiles
    /\ UNCHANGED << history, entry, supporting_docs_folder, rates_file, tolerance,
                    base_currency >>

\* main is started again after the previous run ended; the data folder is as
\* that run left it, every variable of the program starts afresh
NewRun ==
    /\ entry = "main"
    /\ \/ pc \in {"Done", "Aborted"} /\ report.done
       \/ pc = "Raised"
    /\ run < MaxRuns
    /\ Len(all_data) <= MaxRerunRows
    /\ run' = run + 1
    /\ \E inv \in {NoFolder, Folder(<<InvoiceFile>>)} : invoices_folder' = inv
    /\ pc' = "Idle"
    /\ file_idx' = 1
    /\ all_data' = <<>>
    /\ df_invoice' = <<>>
    /\ row_idx' = 1
    /\ verified_rows' = <<>>
    /\ adapter_calls' = <<>>
    /\ rates_dict' = EmptyDict
    /\ api_cache' = EmptyDict
    /\ converted' = <<>>
    /\ remote_calls' = <<>>
    /\ last_call' = NoCall
    /\ result' = NoResult
    /\ report' = NoReport
    /\ last_extract' = NoExtract
    /\ UNCHANGED data_files
    /\ UNCHANGED << history, entry, supporting_docs_folder, rates_file, tolerance,
                    base_currency >>

\* currency codes handed to get_rate by a direct caller
FromCodes == { <<>>, USD, EUR, eur, GBP }
ToCodes == { <<>>, USD, usd, EUR }

\* a direct call of get_rate on the caller's table and cache
RateCall ==
    /\ entry = "get_rate"
    /\ last_call.n < MaxCalls
    /\ \E from \in FromCodes, to \in ToCodes :
         \E remote \in (IF GetRate(from, to, rates_dict, api_cache, NetworkError).called
                        THEN RemoteOutcomes ELSE { NetworkError }) :
            LET g == GetRate(from, to, rates_dict, api_cache, remote)
            IN /\ api_cache' = g.cache
               /\ remote_calls' = LogRemote(remote_calls, g, remote)
               /\ last_call' = CallRecord(last_call.n + 1, from, to, g)
    /\ UNCHANGED << history, run, last_extract, entry, pc, invoices_folder, supporting_docs_folder, rates_file,
                    tolerance, base_currency, file_idx, all_data, df_invoice, row_idx,
                    verified_rows, adapter_calls, rates_dict, converted, data_files, result, report >>

\* --------------------------------------------------------- specifications
\* the state a call starts from, given its inputs
Start(e, p, inv, sup, rf, tol, base, df, ri, rd, cache) ==
    /\ entry = e
    /\ pc = p
    /\ invoices_folder = inv
    /\ supporting_docs_folder = sup
    /\ rates_file = rf
    /\ tolerance = tol
    /\ base_currency = base
    /\ file_idx = 1
    /\ all_data = <<>>
    /\ df_invoice = df
    /\ row_idx = ri
    /\ verified_rows = <<>>
    /\ adapter_calls = <<>>
    /\ rates_dict = rd
    /\ api_cache = cache
    /\ converted = <<>>
    /\ remote_calls = <<>>
    /\ last_call = NoCall
    /\ data_files = NoFiles
    /\ result = NoResult
    /\ report = NoReport
    /\ history = <<>>
    /\ run = 1
    /\ last_extract = NoExtract

Item(d, a, c) ==
    [item_description |-> d, total_non_vat_value |-> a, currency |-> c,
     invoice_file |-> Str(InvoiceFile)]

\* the pipeline, started by main
Init ==
    \E inv \in {NoFolder} \cup FoldersOver(InvoiceNames, MaxFiles),
       sup \in {NoFolder, Folder(<<DocZ, DocAB, DocBoth>>)},
       rf \in {NoRatesFile, RatesCsv(<<RateRow(eur, USD, 2)>>)} :
        Start("main", "Idle", inv, sup, rf, 2, USD, <<>>, 1, EmptyDict, EmptyDict)

Next ==
    \/ RunStart
    \/ ExtractFile
    \/ ExtractDone
    \/ VerifyRow
    \/ VerifyDone
    \/ FxStart
    \/ ConvertRow
    \/ FxDone
    \/ MainFinish

Spec == Init /\ [][Next]_vars

\* main run again and again with the same data folder
InitRuns ==
    \E inv \in {NoFolder, Folder(<<InvoiceFile>>)} :
        Start("main", "Idle", inv, NoFolder, RatesCsv(<<RateRow(eur, USD, 2)>>), 2, USD,
              <<>>, 1, EmptyDict, EmptyDict)

NextRuns == Next \/ NewRun

SpecRuns == InitRuns /\ [][NextRuns]_vars

\* process_invoices called on any folder
InitExtract ==
    \E inv \in {NoFolder} \cup FoldersOver(InvoiceNames, MaxFiles) :
        Start("process_invoices", "Idle", inv, NoFolder, NoRatesFile, 0, USD, <<>>, 1,
              EmptyDict, EmptyDict)

NextExtract == RunStart \/ ExtractFile \/ ExtractDone

SpecExtract == InitExtract /\ [][NextExtract]_vars

\* match_and_verify called on any table
MatchItems ==
    { Item(Str(<<"A", "b">>), a, Str(USD)) : a \in Amounts }
    \cup { Item(d, a, Str(USD)) : d \in Descriptions, a \in {None, Num(3)} }

InitMatch ==
    \E df \in SeqsOf(MatchItems, 0, MaxItems), sup \in SupportFolders, tol \in Tolerances :
        Start("match_and_verify", "Verifying", NoFolder, sup, NoRatesFile, tol, USD,
              df, 1, EmptyDict, EmptyDict)

NextMatch == VerifyRow \/ VerifyDone

SpecMatch == InitMatch /\ [][NextMatch]_vars

\* apply_fx_rates called on any non-empty table
FxItems ==
    { Item(Str(<<"A", "b">>), Num(3), c) : c \in Currencies }
    \cup { Item(Str(<<"A", "b">>), a, c) :
             a \in {None, NaN, Str(<<"5">>)}, c \in {None, NaN, Str(eur)} }

InitFx ==
    \E df \in SeqsOf(FxItems, 1, MaxItems),
       rf \in {NoRatesFile, RatesCsv(<<RateRow(GBP, USD, 3), RateRow(eur, USD, 2)>>)},
       base \in {USD, usd} :
        Start("apply_fx_rates", "Converting", NoFolder, NoFolder, rf, 0, base,
              df, 0, EmptyDict, EmptyDict)

NextFx == FxStart \/ ConvertRow \/ FxDone

SpecFx == InitFx /\ [][NextFx]_vars

\* apply_fx_rates called twice on the same table
TwiceItems ==
    { Item(Str(<<"A", "b">>), Num(3), Str(eur)),
      Item(Str(<<"A", "b">>), Str(<<"5">>), None) }

InitFxTwice ==
    \E df \in SeqsOf(TwiceItems, 1, MaxItems),
       rf \in {NoRatesFile, RatesCsv(<<RateRow(eur, USD, 2)>>)} :
        Start("apply_fx_rates", "Converting", NoFolder, NoFolder, rf, 0, USD,
              df, 0, EmptyDict, EmptyDict)

NextFxTwice == FxStart \/ ConvertRow \/ FxDone \/ FxAgain

SpecFxTwice == InitFxTwice /\ [][NextFxTwice]_vars

\* get_rate called on any table and any cache
RateCaches ==
    { EmptyDict, (GBP :> EmptyDict), (EUR :> (USD :> Num(5))) @@ (USD :> (EUR :> None)) }

InitRate ==
    \E rf \in RatesFiles, cache \in RateCaches :
        Start("get_rate", "Rate", NoFolder, NoFolder, rf, 0, USD, <<>>, 1,
              LoadRates(rf), cache)

NextRate == RateCall

SpecRate == InitRate /\ [][NextRate]_vars

\* ================================================================ claims
\* records emitted so far, each with the line item it was built from
Emitted == 1..Len(verified_rows)

\* C1: in every verification record whose invoice value and extracted value
\* are both known, the verdict is true exactly when |extracted - invoice| is
\* at most the tolerance (the boundary included); the verdict is never true
\* when either value is unknown.
C1_VerdictIffWithinTolerance ==
    \A i \in Emitted :
        LET rec == verified_rows[i]
            inv == rec.invoice_non_vat_value
            ext == rec.extracted_non_vat_value
        IN IF Known(inv) /\ Known(ext)
           THEN rec.non_vat_match <=> (Abs(ext.v - inv.v) <= tolerance)
           ELSE ~rec.non_vat_match

\* a record whose difference is exactly the (non-zero) tolerance and that matched
C1_Witness ==
    /\ tolerance > 0
    /\ \E i \in Emitted :
          /\ Known(verified_rows[i].invoice_non_vat_value)
          /\ Known(verified_rows[i].extracted_non_vat_value)
          /\ Abs(verified_rows[i].extracted_non_vat_value.v
                 - verified_rows[i].invoice_non_vat_value.v) = tolerance
          /\ verified_rows[i].non_vat_match

\* no entry of the supporting-documents folder is a match for the row
NoDocumentFound(row) ==
    \/ ~supporting_docs_folder.exists
    \/ \A j \in 1..Len(supporting_docs_folder.entries) :
          ~Contains(Lower(supporting_docs_folder.entries[j]),
                    NormalizeForMatch(row.item_description))

\* C2: a line item for which no supporting document is found (folder missing,
\* or no entry contains the key) gets supporting_found = false and
\* match = false whatever its invoice value; with the folder missing every row
\* is unmatched and the stage still emits all rows.
C2_NoDocumentNoMatch ==
    /\ \A i \in Emitted :
          NoDocumentFound(df_invoice[i]) =>
              /\ ~verified_rows[i].supporting_attached
              /\ ~verified_rows[i].non_vat_match
    /\ (entry = "match_and_verify" /\ pc = "Returned" /\ ~supporting_docs_folder.exists) =>
          /\ Len(result.verification) = Len(df_invoice)
          /\ \A i \in 1..Len(result.verification) :
                ~result.verification[i].supporting_attached

\* the stage returned all rows of a two-row table although the folder is missing
C2_Witness ==
    /\ entry = "match_and_verify"
    /\ pc = "Returned"
    /\ ~supporting_docs_folder.exists
    /\ Len(result.verification) >= 2
    /\ \E i \in 1..Len(df_invoice) :
          /\ Known(result.verification[i].invoice_non_vat_value)
          /\ NormalizeForMatch(df_invoice[i].item_description) # <<>>

\* C3: match_and_verify emits exactly one record per input line item, in input
\* order: as many records as rows, the i-th carrying the i-th description.
C3_OneRecordPerItemInOrder ==
    /\ pc = "Verifying" => Len(verified_rows) = row_idx - 1
    /\ \A i \in Emitted :
          verified_rows[i].item_description = df_invoice[i].item_description
    /\ (entry = "match_and_verify" /\ pc = "Returned") =>
          /\ Len(result.verification) = Len(df_invoice)
          /\ \A i \in 1..Len(df_invoice) :
                result.verification[i].item_description = df_invoice[i].item_description

\* a returned table of two rows with different descriptions, one row with a
\* document whose extraction failed and one without a document
C3_Witness ==
    /\ entry = "match_and_verify"
    /\ pc = "Returned"
    /\ Len(result.verification) >= 2
    /\ result.verification[1].item_description # result.verification[2].item_description
    /\ \E i \in 1..Len(result.verification) :
          /\ result.verification[i].supporting_attached
          /\ result.verification[i].extracted_non_vat_value = None
    /\ \E i \in 1..Len(result.verification) : ~result.verification[i].supporting_attached

\* the stages of run_validation, in order
StageRank(p) ==
    CASE p = "Idle" -> 0
      [] p = "Extracting" -> 1
      [] p = "Verifying" -> 2
      [] p = "Converting" -> 3
      [] p = "Done" -> 4
      [] OTHER -> 5

\* a step keeps the stage or enters the next one; verification starts only
\* after every folder entry was handled, conversion only after every row got
\* its record
StagesInOrder ==
    /\ (StageRank(pc') <= 4 /\ pc' # pc) => StageRank(pc') = StageRank(pc) + 1
    /\ (pc' = "Verifying" /\ pc # "Verifying") =>
          /\ file_idx > Len(invoices_folder.entries)
          /\ df_invoice' = all_data
    /\ (pc' = "Converting" /\ pc # "Converting") =>
          Len(verified_rows) = Len(df_invoice)
    /\ (pc' = "Done" /\ pc # "Done") => Len(converted) = Len(df_invoice)

\* once aborted the run stays aborted and no stage does anything
AbortedIsFinal ==
    pc = "Aborted" =>
        /\ pc' = "Aborted"
        /\ verified_rows = <<>> /\ adapter_calls = <<>>
        /\ converted = <<>> /\ remote_calls = <<>>
        /\ UNCHANGED << verified_rows, adapter_calls, converted, remote_calls,
                        data_files, result >>

\* C4 as stated: the stages run in the order Idle, Extracting, Verifying,
\* Converting, Done, and Aborted is entered from Extracting only.
C4_AbortedFromExtractingOnly ==
    [][ /\ StagesInOrder
        /\ AbortedIsFinal
        /\ (pc' = "Aborted" /\ pc # "Aborted") => pc = "Extracting" ]_vars

\* C4: run_validation moves through Idle, Extracting, Verifying, Converting,
\* Done in that order only; Aborted is entered from Idle (invoices folder
\* missing) or from Extracting (no line item extracted) only, and once Aborted
\* no verification or conversion step is executed.
C4_StagesInOrder ==
    [][ /\ StagesInOrder
        /\ AbortedIsFinal
        /\ (pc' = "Aborted" /\ pc # "Aborted") => pc \in {"Idle", "Extracting"} ]_vars

\* the run was aborted without extraction having started, and main has ended
C4_Witness ==
    /\ pc = "Aborted"
    /\ ~invoices_folder.exists
    /\ report.done

\* C5: once extraction has produced at least one line item, neither the
\* verification stage nor the conversion stage aborts or raises.
C5_StagesNeverFail ==
    df_invoice # <<>> => pc \notin {"Raised", "Aborted"}

\* the table an invoice table turns into: the same rows, each with a
\* converted-value field
SameItem(fx, item) ==
    /\ DOMAIN fx = DOMAIN item \cup {"converted_non_vat_value"}
    /\ \A f \in DOMAIN item : fx[f] = item[f]

\* C6: run_validation returns the pair of empty tables exactly when it ends in
\* Aborted (invoices folder missing, or no line item extracted); when it ends
\* in Done the invoice table holds every extracted line item with a
\* converted value attached and the verification table one record per item.
C6_ResultPair ==
    /\ result.returned <=> pc \in {"Aborted", "Done"}
    /\ pc = "Aborted" =>
          /\ result = EmptyPair
          /\ ~invoices_folder.exists \/ all_data = <<>>
    /\ pc = "Done" =>
          /\ all_data # <<>>
          /\ Len(result.invoice) = Len(all_data)
          /\ \A i \in 1..Len(all_data) : SameItem(result.invoice[i], all_data[i])
          /\ Len(result.verification) = Len(all_data)
          /\ \A i \in 1..Len(all_data) :
                /\ result.verification[i].item_description = all_data[i].item_description
                /\ result.verification[i].invoice_file = all_data[i].invoice_file

\* a finished run over two line items, one of them without a convertible amount
C6_Witness ==
    /\ pc = "Done"
    /\ Len(result.invoice) >= 2
    /\ \E i \in 1..Len(result.invoice) : result.invoice[i].converted_non_vat_value = None
    /\ \E i \in 1..Len(result.invoice) : result.invoice[i].converted_non_vat_value # None

\* C7: within one apply_fx_rates invocation the remote rate lookup is
\* performed at most once per distinct source currency, however many rows
\* carry that currency and need a remote rate.
C7_OneRemoteCallPerCurrency ==
    entry = "apply_fx_rates" =>
        \A i, j \in 1..Len(remote_calls) :
            i # j => remote_calls[i].base # remote_calls[j].base

\* C8: when the remote lookup for a base currency fails (non-2xx response or
\* network error), get_rate records the base currency in the cache with an
\* empty rate map, and no later get_rate call for that base currency performs
\* another remote call.
C8_FailureIsCached ==
    entry = "get_rate" =>
        /\ (last_call.called /\ last_call.failed) =>
              /\ Upper(last_call.from) \in DOMAIN api_cache
              /\ api_cache[Upper(last_call.from)] = EmptyDict
        /\ \A i, j \in 1..Len(remote_calls) :
              (i < j /\ ~remote_calls[i].ok) => remote_calls[j].base # remote_calls[i].base

\* C9: get_rate always returns a rate greater than zero, whatever the codes,
\* the local table, the cache and the remote outcome are.
C9_RateIsPositive ==
    (entry = "get_rate" /\ last_call.n > 0) => last_call.rate > 0

\* the pair handed to the call being made is a key of the local rate table
InLocalTable(call) ==
    /\ call.from # <<>>
    /\ call.to # <<>>
    /\ <<Upper(call.from), Upper(call.to)>> \in DOMAIN rates_dict

\* C10: for every currency pair present in the local rate table, get_rate
\* returns exactly the table's value and performs no remote lookup, whatever
\* the remote cache contains.
C10_LocalTableFirst ==
    [][ (entry = "get_rate" /\ last_call'.n = last_call.n + 1 /\ InLocalTable(last_call')) =>
            /\ last_call'.rate = rates_dict[<<Upper(last_call'.from), Upper(last_call'.to)>>]
            /\ ~last_call'.called
            /\ remote_calls' = remote_calls
            /\ api_cache' = api_cache ]_vars

\* a lower-case pair answered from the table although the cache holds another
\* rate for the same pair
C10_Witness ==
    /\ entry = "get_rate"
    /\ last_call.n > 0
    /\ last_call.from = eur
    /\ InLocalTable(last_call)
    /\ last_call.local
    /\ EUR \in DOMAIN api_cache
    /\ Upper(last_call.to) \in DOMAIN api_cache[EUR]
    /\ api_cache[EUR][Upper(last_call.to)] # Num(last_call.rate)
    /\ remote_calls = <<>>


\* C11: when either currency code passed to get_rate is empty, it returns 1.0
\* without consulting the local table, the remote cache or the network, and
\* leaves the cache unchanged.
C11_EmptyCodeGivesOne ==
    [][ (entry = "get_rate" /\ last_call'.n = last_call.n + 1
         /\ (last_call'.from = <<>> \/ last_call'.to = <<>>)) =>
            /\ last_call'.rate = 1
            /\ ~last_call'.local
            /\ ~last_call'.called
            /\ remote_calls' = remote_calls
            /\ api_cache' = api_cache ]_vars

\* a call with a source currency and an empty target, on a non-empty table
\* and a non-empty cache
C11_Witness ==
    /\ entry = "get_rate"
    /\ last_call.n > 0
    /\ last_call.from = eur
    /\ last_call.to = <<>>
    /\ last_call.rate = 1
    /\ DOMAIN rates_dict # {}
    /\ DOMAIN api_cache # {}
    /\ remote_calls = <<>>


\* C12: the table apply_fx_rates returns has the rows of its input, as many
\* and in the same order, rows with an unknown amount or a missing currency
\* included; every field a row had is unchanged and the converted value is
\* the only field added; the input table itself is never modified.
C12_RowsPreserved ==
    [][ /\ df_invoice' = df_invoice
        /\ (entry = "apply_fx_rates" /\ pc' = "Returned") =>
              /\ Len(result'.invoice) = Len(df_invoice)
              /\ \A i \in 1..Len(df_invoice) :
                    SameItem(result'.invoice[i], df_invoice[i]) ]_vars

\* a returned table of two rows, one whose amount is a numeric string and has
\* no currency, one whose amount is unknown
C12_Witness ==
    /\ entry = "apply_fx_rates"
    /\ pc = "Returned"
    /\ Len(result.invoice) = 2
    /\ result.invoice[1].total_non_vat_value = Str(<<"5">>)
    /\ result.invoice[1].currency = None
    /\ result.invoice[1].converted_non_vat_value = Num(5)
    /\ result.invoice[2].total_non_vat_value = None
    /\ result.invoice[2].converted_non_vat_value = None


\* a currency cell that holds no currency: absent (None or NaN) or empty
CurrencyMissing(c) == ~Known(c) \/ ~Truthy(c)

\* C13: every step of the conversion over a row appends that row's converted
\* value, by these rules in this priority: amount not coercible to a number ->
\* unknown; else currency missing -> the amount; else currency equal to the
\* base currency ignoring case -> the amount; in these three cases get_rate
\* is not called and no remote request is made; otherwise the amount times
\* get_rate(currency, base), with no remote request when the local table
\* holds the pair.
C13_ConversionRules ==
    [][ (entry = "apply_fx_rates" /\ pc = "Converting"
         /\ row_idx \in 1..Len(df_invoice)
         /\ (row_idx' # row_idx \/ pc' # pc)) =>
          LET row == df_invoice[row_idx]
              amount == SafeFloat(row.total_non_vat_value)
              same == row.currency.t = "str" /\ Upper(row.currency.s) = Upper(base_currency)
              no_call == last_call' = last_call /\ remote_calls' = remote_calls
          IN /\ pc' = "Converting"
             /\ Len(converted') = row_idx
             /\ IF amount = None THEN converted'[row_idx] = None /\ no_call
                ELSE IF CurrencyMissing(row.currency)
                THEN converted'[row_idx] = amount /\ no_call
                ELSE IF same THEN converted'[row_idx] = amount /\ no_call
                ELSE /\ last_call'.n = last_call.n + 1
                     /\ last_call'.from = row.currency.s
                     /\ last_call'.to = base_currency
                     /\ converted'[row_idx] = FMul(amount, last_call'.rate)
                     /\ last_call'.local => remote_calls' = remote_calls ]_vars


\* both invocations of apply_fx_rates on the same table have returned
ReturnedTwice == entry = "apply_fx_rates" /\ pc = "Returned" /\ Len(history) = 1

\* a row whose rate is neither fixed by the row itself nor held by the local
\* table
NeedsRemote(row) ==
    /\ NeedsRate(row, base_currency)
    /\ ~LocalLookup(rates_dict, row.currency.s, base_currency)

ExtractStep ==
    /\ pc = "Extracting"
    /\ last_extract' # last_extract
    /\ last_extract'.kind # "skipped"

\* C15 as stated: an unreadable file, an empty response and a payload that is
\* not a non-empty list give an empty result without raising, while a response
\* that is not valid JSON raises out of extract_line_items.
C15_InvalidJsonPropagates ==
    [][ ExtractStep =>
          /\ last_extract'.kind \in {"unreadable", "empty_response", "not_list"} =>
                last_extract'.rows = <<>> /\ pc' = "Extracting"
          /\ last_extract'.kind = "invalid_json" => pc' = "Raised" ]_vars

\* C15 amended: an unreadable file, an empty response, a response that is not
\* valid JSON and a payload that is not a non-empty list all give an empty
\* result; extract_line_items never raises.
C15_EveryFailureGivesEmpty ==
    [][ ExtractStep =>
          /\ pc' = "Extracting"
          /\ last_extract'.kind # "items" => last_extract'.rows = <<>> ]_vars

\* a response that is not valid JSON has been handled after another file
\* yielded items, and the loop has moved past it
C15_Witness ==
    /\ pc = "Extracting"
    /\ last_extract.kind = "invalid_json"
    /\ last_extract.rows = <<>>
    /\ all_data # <<>>
    /\ file_idx = 3


\* a side-file holds a table; a file that does not exist holds the empty table
FileHolds(file, table) == file = Written(table) \/ (table = <<>> /\ file = NoFile)

\* C16 as stated: when a run has ended, Done or Aborted, each of the three
\* side-files holds that run's output, whatever earlier runs left there.
C16_FilesHoldLatestRun ==
    (entry = "main" /\ pc \in {"Done", "Aborted"}) =>
        /\ FileHolds(data_files.extracted, all_data)
        /\ FileHolds(data_files.verification, result.verification)
        /\ FileHolds(data_files.converted, result.invoice)

\* C16 amended: a side-file changes only when the stage that owns it finishes
\* and writes its table (the extracted items only when there are any); a run
\* that reaches Done has all three files holding its own output; a run that
\* aborts writes no file, and starting a run writes no file, so what an
\* earlier run wrote stays.
C16_FilesHoldLastWrite ==
    [][ /\ data_files'.extracted # data_files.extracted =>
              /\ pc = "Extracting" /\ pc' = "Verifying"
              /\ all_data # <<>>
              /\ data_files'.extracted = Written(all_data)
        /\ data_files'.verification # data_files.verification =>
              /\ pc = "Verifying" /\ pc' = "Converting"
              /\ data_files'.verification = Written(verified_rows)
        /\ data_files'.converted # data_files.converted =>
              /\ pc = "Converting" /\ pc' = "Done"
              /\ data_files'.converted = Written(result'.invoice)
        /\ pc' = "Done" =>
              /\ data_files'.extracted = Written(all_data')
              /\ data_files'.verification = Written(result'.verification)
              /\ data_files'.converted = Written(result'.invoice)
        /\ pc' \in {"Idle", "Extracting", "Aborted"} => data_files' = data_files ]_vars

\* a second run has aborted and the three files of the first run are still
\* there
C16_Witness ==
    /\ run = 2
    /\ pc = "Aborted"
    /\ invoices_folder.exists
    /\ data_files.extracted.present
    /\ data_files.verification.present
    /\ data_files.converted.present


\* the rows of `later` are those of `earlier` followed by `rows`, each tagged
\* with the file name
ExtendedBy(later, earlier, rows, name) ==
    /\ Len(later) = Len(earlier) + Len(rows)
    /\ \A i \in 1..Len(earlier) : later[i] = earlier[i]
    /\ \A j \in 1..Len(rows) :
          LET r == later[Len(earlier) + j]
          IN /\ r.item_description = rows[j].item_description
             /\ r.total_non_vat_value = rows[j].total_non_vat_value
             /\ r.currency = rows[j].currency
             /\ r.invoice_file = Str(name)

\* C17: each folder entry is handled in listing order and the loop always
\* moves on to the next one; an entry whose extraction fails or is empty adds
\* nothing, an entry that yields items adds them after the rows collected so
\* far, in extraction order, each tagged with the entry's name; the table
\* returned is the table so collected, after every entry was handled, and
\* every row of it carries a non-empty invoice name.
C17_CombinedTable ==
    [][ /\ (pc = "Extracting" /\ last_extract' # last_extract) =>
              /\ pc' = "Extracting"
              /\ file_idx' = file_idx + 1
              /\ last_extract'.file = invoices_folder.entries[file_idx]
              /\ last_extract'.kind # "items" => last_extract'.rows = <<>>
              /\ ExtendedBy(all_data', all_data, last_extract'.rows, last_extract'.file)
        /\ (pc = "Extracting" /\ pc' # "Extracting") =>
              /\ file_idx > Len(invoices_folder.entries)
              /\ result'.invoice = all_data
              /\ \A i \in 1..Len(all_data) :
                    /\ all_data[i].invoice_file.t = "str"
                    /\ all_data[i].invoice_file.s # <<>> ]_vars

\* the first of two invoice files gave nothing, the second gave the rows of
\* the returned table
C17_Witness ==
    /\ entry = "process_invoices"
    /\ pc = "Returned"
    /\ Len(invoices_folder.entries) = 2
    /\ \A i \in 1..2 : IsInvoiceFile(invoices_folder.entries[i])
    /\ last_extract.kind = "items"
    /\ Len(result.invoice) = 2
    /\ \A i \in 1..2 : result.invoice[i].invoice_file = Str(invoices_folder.entries[2])
    /\ result.invoice[1] # result.invoice[2]


\* C18: main calls generate_report if and only if the invoice table returned
\* by run_validation is non-empty: never before run_validation returned, never
\* after an aborted run, and otherwise exactly once, with the two tables
\* returned.
C18_ReportIffNonEmpty ==
    /\ Len(report.calls) <= 1
    /\ ~report.done => report.calls = <<>>
    /\ report.done =>
          /\ result.returned
          /\ report.calls # <<>> <=> result.invoice # <<>>
    /\ pc = "Aborted" => report.calls = <<>>
    /\ report.calls # <<>> =>
          /\ pc = "Done"
          /\ report.calls[1].invoice = result.invoice
          /\ report.calls[1].verification = result.verification

\* main has written the report of a completed run over two line items
C18_Witness ==
    /\ entry = "main"
    /\ pc = "Done"
    /\ report.done
    /\ Len(report.calls) = 1
    /\ Len(report.calls[1].invoice) = 2
    /\ Len(report.calls[1].verification) = 2


\* entries of the supporting-documents folder whose lower-cased name contains
\* the key
Candidates(key) ==
    { k \in 1..Len(supporting_docs_folder.entries) :
        Contains(Lower(supporting_docs_folder.entries[k]), key) }

\* C19: for every line item with a non-empty normalized key, the matched
\* document is the first folder entry, in listing order, whose lower-cased name
\* contains the key; the Extraction Adapter is called once when there is such
\* an entry, whatever it returns, and not at all when there is none.
C19_FirstMatchWins ==
    \A i \in Emitted :
        LET key == NormalizeForMatch(df_invoice[i].item_description)
            rec == verified_rows[i]
        IN key # <<>> =>
             IF Candidates(key) = {}
             THEN /\ adapter_calls[i] = 0
                  /\ ~rec.supporting_attached
                  /\ rec.supporting_file = <<>>
             ELSE /\ adapter_calls[i] = 1
                  /\ rec.supporting_attached
                  /\ \E k \in Candidates(key) :
                        /\ \A j \in Candidates(key) : k <= j
                        /\ rec.supporting_file = supporting_docs_folder.entries[k]

\* two entries contain the key, the first one was handed to the adapter, which
\* returned nothing, and it stays the matched document
C19_Witness ==
    /\ entry = "match_and_verify"
    /\ supporting_docs_folder = Folder(<<DocZ, DocAB, DocBoth>>)
    /\ \E i \in Emitted :
          /\ NormalizeForMatch(df_invoice[i].item_description) = <<"a", "b">>
          /\ verified_rows[i].supporting_file = DocAB
          /\ verified_rows[i].extracted_non_vat_value = None
          /\ adapter_calls[i] = 1

\* C20: when a document is matched and the Extraction Adapter returns no
\* value, the record is emitted with supporting_attached true, the matched
\* document's name, extracted value and difference unknown and verdict false;
\* the loop goes on and the call returns one record per line item.
C20_AdapterFailureKeepsRow ==
    /\ entry = "match_and_verify" =>
          /\ pc \in {"Verifying", "Returned"}
          /\ Len(verified_rows) = row_idx - 1
          /\ pc = "Returned" => Len(verified_rows) = Len(df_invoice)
    /\ \A i \in Emitted :
          (adapter_calls[i] = 1 /\ verified_rows[i].extracted_non_vat_value = None) =>
              /\ verified_rows[i].supporting_attached
              /\ verified_rows[i].supporting_file # <<>>
              /\ verified_rows[i].supporting_file
                    \in { supporting_docs_folder.entries[k] :
                            k \in 1..Len(supporting_docs_folder.entries) }
              /\ verified_rows[i].difference = None
              /\ ~verified_rows[i].non_vat_match

\* the adapter returned nothing for the first of two line items with a numeric
\* amount, and the second was verified and matched all the same
C20_Witness ==
    /\ entry = "match_and_verify"
    /\ pc = "Returned"
    /\ Len(verified_rows) = 2
    /\ adapter_calls = <<1, 1>>
    /\ verified_rows[1].invoice_non_vat_value = Num(3)
    /\ verified_rows[1].extracted_non_vat_value = None
    /\ verified_rows[1].supporting_attached
    /\ verified_rows[2].non_vat_match


\* a description that gives no key: not a string, or nothing but whitespace
NoKey(desc) ==
    \/ desc.t # "str"
    \/ \A k \in 1..Len(desc.s) : desc.s[k] \in Whitespace

\* C21: a line item whose description is not a string, or is empty after
\* normalization, is reported with supporting_attached false: no folder entry
\* is matched, although the empty key is contained in every name, and the
\* Extraction Adapter is not called for it.
C21_EmptyKeyNoLookup ==
    \A i \in Emitted :
        NoKey(df_invoice[i].item_description) =>
            /\ ~verified_rows[i].supporting_attached
            /\ verified_rows[i].supporting_file = <<>>
            /\ verified_rows[i].extracted_non_vat_value = None
            /\ verified_rows[i].difference = None
            /\ ~verified_rows[i].non_vat_match
            /\ adapter_calls[i] = 0

\* a whitespace-only description and a non-string one, both reported without a
\* document, in a folder that has entries
C21_Witness ==
    /\ entry = "match_and_verify"
    /\ supporting_docs_folder.exists
    /\ supporting_docs_folder.entries # <<>>
    /\ Len(verified_rows) = 2
    /\ df_invoice[1].item_description = Str(<<" ", "\t">>)
    /\ df_invoice[2].item_description = NaN
    /\ \A i \in 1..2 : ~verified_rows[i].supporting_attached /\ adapter_calls[i] = 0


\* the rate a remote rate map gives for a target code: its numeric value for
\* the code, 1 when the map has none
ValueIn(map, t) == IF t \in DOMAIN map /\ map[t].t = "num" THEN map[t].v ELSE 1

\* C22: every get_rate call resolves its rate by the first of these steps that
\* applies, with both codes upper-cased for every lookup: 1 when either code is
\* empty; the local table's value for (from, to); the value for the target in
\* the cached remote map of the source, without a request; the value for the
\* target in the map a request for the source returns; and 1 when the request
\* fails or the map has no value for the target.
C22_ResolutionChain ==
    [][ (entry = "get_rate" /\ last_call'.n = last_call.n + 1) =>
          LET call == last_call'
              f == Upper(call.from)
              t == Upper(call.to)
              asked == remote_calls' # remote_calls
              answer == remote_calls'[Len(remote_calls')].answer
          IN IF call.from = <<>> \/ call.to = <<>>
             THEN call.rate = 1 /\ ~asked
             ELSE IF <<f, t>> \in DOMAIN rates_dict
             THEN call.rate = rates_dict[<<f, t>>] /\ ~asked
             ELSE IF f \in DOMAIN api_cache
             THEN call.rate = ValueIn(api_cache[f], t) /\ ~asked
             ELSE /\ remote_calls' = Append(remote_calls,
                                            [base |-> f, ok |-> answer.kind = "ok",
                                             answer |-> answer])
                  /\ call.rate = IF answer.kind = "ok" THEN ValueIn(answer.rates, t)
                                 ELSE 1 ]_vars

\* a call with a lower-case source, a pair the local table lacks and a source
\* the cache lacks, resolved by the map the request returned
C22_Witness ==
    /\ entry = "get_rate"
    /\ last_call.from = eur
    /\ last_call.to = EUR
    /\ last_call.called
    /\ ~last_call.failed
    /\ last_call.rate = 3
    /\ DOMAIN rates_dict # {}
    /\ remote_calls # <<>>
    /\ remote_calls[Len(remote_calls)].base = EUR


\* C23: every record emitted by match_and_verify is consistent: without a
\* supporting document the document name is empty and the extracted value and
\* the difference are unknown; with one the name is not empty; the difference
\* is known exactly when the invoice value and the extracted value both are,
\* and is then the extracted value minus the invoice value; a true verdict
\* comes only with a supporting document.
C23_RecordConsistent ==
    \A i \in Emitted :
        LET rec == verified_rows[i]
            both == Known(rec.invoice_non_vat_value) /\ Known(rec.extracted_non_vat_value)
        IN /\ ~rec.supporting_attached =>
                 /\ rec.supporting_file = <<>>
                 /\ rec.extracted_non_vat_value = None
                 /\ rec.difference = None
           /\ rec.supporting_attached => rec.supporting_file # <<>>
           /\ Known(rec.difference) <=> both
           /\ rec.difference # None <=>
                 (rec.invoice_non_vat_value # None /\ rec.extracted_non_vat_value # None)
           /\ both => rec.difference =
                         Num(rec.extracted_non_vat_value.v - rec.invoice_non_vat_value.v)
           /\ rec.non_vat_match => rec.supporting_attached

\* two records: one with a document and the difference 5 - 3, one without a
\* document
C23_Witness ==
    /\ entry = "match_and_verify"
    /\ Len(verified_rows) = 2
    /\ \E i \in Emitted :
          /\ verified_rows[i].supporting_attached
          /\ verified_rows[i].extracted_non_vat_value = Num(5)
          /\ verified_rows[i].invoice_non_vat_value = Num(3)
          /\ verified_rows[i].difference = Num(2)
    /\ \E i \in Emitted : ~verified_rows[i].supporting_attached

====
